---- MODULE Spec2Model ----
(***************************************************************************)
(* Two-stage company intelligence pipeline: a Collection stage and an      *)
(* Analysis stage, each one model call, sequenced by OrchestratorAgent,    *)
(* which records both exchanges in a conversation memory.                  *)
(*                                                                         *)
(* Python values are records [type, val]: type is the Python type name and *)
(* val the value written as a string.  A dict value here is always the     *)
(* stages' {"error": msg}; its val is msg.                                 *)
(***************************************************************************)
EXTENDS Integers, Sequences, FiniteSets, TLC

\* ------------------------------------------------------------------ bounds
MaxRuns == 2          \* calls of OrchestratorAgent.run on one instance
MaxStageCalls == 2    \* direct calls of a stage's run
MaxReads == 2         \* a client's own reads of the orchestrator's memory

\* ------------------------------------------------------------ Python values
None == [type |-> "NoneType", val |-> ""]
Str(s) == [type |-> "str", val |-> s]
PyInt(s) == [type |-> "int", val |-> s]
ErrorDict(msg) == [type |-> "dict", val |-> msg]
\* a local variable that has not been assigned yet
Unbound == [type |-> "unbound", val |-> ""]
\* not a value: KeyboardInterrupt leaving the call (no except clause here
\* catches it, `except Exception` does not cover BaseException)
Raise(name) == [type |-> "raise", val |-> name]

\* Python truth value of v
Truthy(v) ==
    CASE v.type = "NoneType" -> FALSE
      [] v.type = "str" -> v.val # ""
      [] v.type = "int" -> v.val # "0"
      [] v.type = "dict" -> TRUE
      [] OTHER -> TRUE

\* ------------------------------------------------------------------ inputs
company_1 == Str("Soulpage IT Solutions")
CompanyInputs == {Str("Acme"), company_1, Str(""), None, PyInt("42"), PyInt("0")}
DataInputs == {Str("T1"), Str(""), None, PyInt("42")}
Texts == {"", "T1", "T2", "T3"}
ErrorTexts == {"timeout", "401 unauthorized"}
\* what chain.invoke does: return response.content, raise an Exception, or
\* be interrupted by the user (KeyboardInterrupt)
ModelOutcomes ==
    [kind : {"content"}, val : Texts] \cup
    [kind : {"exception"}, val : ErrorTexts] \cup
    [kind : {"interrupt"}, val : {"KeyboardInterrupt"}]
\* str(e) of a fault raised by the memory inside OrchestratorAgent.run
MemFaultMsg == "memory fault"

\* ------------------------------------------------------------------- state
VARIABLES
    memory,      \* orchestrator.memory.chat_memory.messages
    pc,          \* position in OrchestratorAgent.run
    company,     \* run's argument
    data,        \* run's local `data`
    analysis,    \* run's local `analysis`
    result,      \* the dict run returned
    trace,       \* model calls and memory operations of the current run
    memAtEntry,  \* memory when the current run was entered
    runs,        \* completed calls of run on this instance
    stdout,      \* lines printed
    stageLog,    \* direct calls of the stages' run
    proc,        \* position of the process
    exitCode,    \* status the process ends with: 0 unless exit(1) is called
    appended,    \* the (input, output) pairs saved since the memory was built
    env,         \* what the model and the memory have answered, by call
    seen,        \* by company, how the first run for it ended
    launch,      \* what `python3 <file>` is started with: the file's text and
                 \* what ChatOpenAI(...) does with the environment's credential
    reads        \* what a client's own reads of orchestrator.memory returned
                 \* since its last call of run

runVars == <<memory, pc, company, data, analysis, result, trace, memAtEntry, stdout,
             appended>>
vars == <<memory, pc, company, data, analysis, result, trace, memAtEntry, runs,
          stdout, stageLog, proc, exitCode, appended, env, seen, launch, reads>>

\* `result` before run has returned
NoResult == [pending |-> TRUE]

\* ------------------------------------------------------------------ events
ModelEvent(stage, input, out) ==
    [ev |-> "model", stage |-> stage, input |-> input, outcome |-> out.kind]
MemoryEvent(op, input, outcome) ==
    [ev |-> "memory", stage |-> op, input |-> input, outcome |-> outcome]

\* ------------------------------------------------------------------ stages
\* DataCollectorAgent.run: `not company or not isinstance(company, str)`
InvalidCompany(c) == ~Truthy(c) \/ c.type # "str"

\* DataCollectorAgent.run calling the model again after an Exception
DataCollectorAgent_run_Retry(c, out) ==
    IF InvalidCompany(c)
    THEN [ret |-> ErrorDict("Invalid company name provided"),
          calls |-> <<>>, printed |-> <<>>]
    ELSE LET error_msg == "Error collecting data for " \o c.val \o ": " \o out.val
             call == ModelEvent("Collection", c.val, out)
         IN CASE out.kind = "content" ->
                   [ret |-> Str(out.val), calls |-> <<call>>, printed |-> <<>>]
              [] out.kind = "exception" ->
                   [ret |-> ErrorDict(error_msg), calls |-> <<call, call>>,
                    printed |-> <<error_msg>>]
              [] OTHER ->
                   [ret |-> Raise(out.val), calls |-> <<call>>, printed |-> <<>>]

\* DataCollectorAgent.run returning its error message, not a mapping
DataCollectorAgent_run_ReturnsMessage(c, out) ==
    IF InvalidCompany(c)
    THEN [ret |-> ErrorDict("Invalid company name provided"),
          calls |-> <<>>, printed |-> <<>>]
    ELSE LET error_msg == "Error collecting data for " \o c.val \o ": " \o out.val
             call == ModelEvent("Collection", c.val, out)
         IN CASE out.kind = "content" ->
                   [ret |-> Str(out.val), calls |-> <<call>>, printed |-> <<>>]
              [] out.kind = "exception" ->
                   [ret |-> Str(error_msg), calls |-> <<call>>,
                    printed |-> <<error_msg>>]
              [] OTHER ->
                   [ret |-> Raise(out.val), calls |-> <<call>>, printed |-> <<>>]

\* DataCollectorAgent.run(company), the model answering `out` if it is called:
\* the value returned, the model calls made, the lines printed
DataCollectorAgent_run(c, out) ==
    IF InvalidCompany(c)
    THEN [ret |-> ErrorDict("Invalid company name provided"),
          calls |-> <<>>, printed |-> <<>>]
    ELSE LET error_msg == "Error collecting data for " \o c.val \o ": " \o out.val
             call == ModelEvent("Collection", c.val, out)
         IN CASE out.kind = "content" ->
                   [ret |-> Str(out.val), calls |-> <<call>>, printed |-> <<>>]
              [] out.kind = "exception" ->
                   [ret |-> ErrorDict(error_msg), calls |-> <<call>>,
                    printed |-> <<error_msg>>]
              [] OTHER ->
                   [ret |-> Raise(out.val), calls |-> <<call>>, printed |-> <<>>]

\* AnalystAgent.run without its try/except: the model's Exception leaves it
AnalystAgent_run_Propagates(company_data, out) ==
    IF ~Truthy(company_data)
    THEN [ret |-> ErrorDict("No company data provided for analysis"),
          calls |-> <<>>, printed |-> <<>>]
    ELSE LET call == ModelEvent("Analysis", company_data.val, out)
         IN IF out.kind = "content"
            THEN [ret |-> Str(out.val), calls |-> <<call>>, printed |-> <<>>]
            ELSE [ret |-> Raise(out.val), calls |-> <<call>>, printed |-> <<>>]

\* AnalystAgent.run without its check of company_data
AnalystAgent_run_NoValidation(company_data, out) ==
    LET error_msg == "Error analyzing company data: " \o out.val
        call == ModelEvent("Analysis", company_data.val, out)
    IN CASE out.kind = "content" ->
              [ret |-> Str(out.val), calls |-> <<call>>, printed |-> <<>>]
         [] out.kind = "exception" ->
              [ret |-> ErrorDict(error_msg), calls |-> <<call>>,
               printed |-> <<error_msg>>]
         [] OTHER ->
              [ret |-> Raise(out.val), calls |-> <<call>>, printed |-> <<>>]

\* AnalystAgent.run(company_data)
AnalystAgent_run(company_data, out) ==
    IF ~Truthy(company_data)
    THEN [ret |-> ErrorDict("No company data provided for analysis"),
          calls |-> <<>>, printed |-> <<>>]
    ELSE LET error_msg == "Error analyzing company data: " \o out.val
             call == ModelEvent("Analysis", company_data.val, out)
         IN CASE out.kind = "content" ->
                   [ret |-> Str(out.val), calls |-> <<call>>, printed |-> <<>>]
              [] out.kind = "exception" ->
                   [ret |-> ErrorDict(error_msg), calls |-> <<call>>,
                    printed |-> <<error_msg>>]
              [] OTHER ->
                   [ret |-> Raise(out.val), calls |-> <<call>>, printed |-> <<>>]

\* ------------------------------------------------------------------ memory
HumanMessage(s) == [type |-> "human", content |-> s]
AIMessage(s) == [type |-> "ai", content |-> s]

\* a memory that keeps the last exchange alone
save_context_Replaces(messages, i, o) == <<HumanMessage(i), AIMessage(o)>>

\* ConversationBufferMemory.save_context({"input": i}, {"output": o})
save_context(messages, i, o) == messages \o <<HumanMessage(i), AIMessage(o)>>

\* a memory that returns the last exchange alone (a window of 1)
load_memory_variables_Window(messages) ==
    [history |-> IF Len(messages) <= 2 THEN messages
                 ELSE SubSeq(messages, Len(messages) - 1, Len(messages))]

\* ConversationBufferMemory(return_messages=True).load_memory_variables({})
load_memory_variables(messages) == [history |-> messages]

\* ------------------------------------------------------------ orchestrator
\* a check of the stage's answer that never sees an error
IsErrorDict_Never(x) == FALSE

\* `isinstance(x, dict) and "error" in x`
IsErrorDict(x) == x.type = "dict"

\* OrchestratorAgent.run: `not company or not isinstance(company, str)`
InvalidCompanyName(c) == ~Truthy(c) \/ c.type # "str"

\* the invalid-input result without its "error" key
InvalidResult_NoError == [company |-> None, raw_data |-> None, analysis |-> None]

InvalidResult ==
    [error |-> Str("Invalid company name provided"),
     company |-> None, raw_data |-> None, analysis |-> None]

\* the Collection-failure result carrying what the stage returned
CollectFailureResult_KeepsData(c, d) ==
    [company |-> c, raw_data |-> d, analysis |-> None, error |-> Str(d.val)]

CollectFailureResult(c, d) ==
    [company |-> c, raw_data |-> None, analysis |-> None, error |-> Str(d.val)]

\* the Analysis-failure result without the collected text
AnalyzeFailureResult_DropsData(c, d, a) ==
    [company |-> c, raw_data |-> None, analysis |-> None, error |-> Str(a.val)]

\* the Analysis-failure result carrying what the stage returned
AnalyzeFailureResult_KeepsAnalysis(c, d, a) ==
    [company |-> c, raw_data |-> d, analysis |-> a, error |-> Str(a.val)]

AnalyzeFailureResult(c, d, a) ==
    [company |-> c, raw_data |-> d, analysis |-> None, error |-> Str(a.val)]

\* the success result without the analysis
SuccessResult_DropsAnalysis(c, d, a, mem) ==
    [company |-> c, raw_data |-> d, analysis |-> None, memory |-> mem]

SuccessResult(c, d, a, mem) ==
    [company |-> c, raw_data |-> d, analysis |-> a, memory |-> mem]

OrchestrationErrorMsg(c, e) == "Orchestration error for " \o c.val \o ": " \o e

\* the except clause's result without its "error" key
ExceptResult_NoError(c, e) ==
    [company |-> c, raw_data |-> None, analysis |-> None]

ExceptResult(c, e) ==
    [company |-> c, raw_data |-> None, analysis |-> None,
     error |-> Str(OrchestrationErrorMsg(c, e))]

\* the classes in the hands of a client: the module was loaded, its string
\* literals closed on their line and the model client built
Imported == [file |-> "classes", llm |-> "ok"]

Init ==
    /\ memory = <<>>
    /\ pc = "idle"
    /\ company = Unbound
    /\ data = Unbound
    /\ analysis = Unbound
    /\ result = NoResult
    /\ trace = <<>>
    /\ memAtEntry = <<>>
    /\ runs = 0
    /\ stdout = <<>>
    /\ stageLog = <<>>
    /\ proc = "client"
    /\ exitCode = 0
    /\ appended = <<>>
    /\ env = <<>>
    /\ seen = <<>>
    /\ launch = Imported
    /\ reads = <<>>

\* OrchestratorAgent.run(c), up to the call of the Collection stage
RunEnter(c) ==
    /\ pc = "idle"
    /\ company' = c
    /\ data' = Unbound
    /\ analysis' = Unbound
    /\ trace' = <<>>
    /\ memAtEntry' = memory
    /\ memory' = memory
    /\ appended' = appended
    /\ IF InvalidCompanyName(c)
       THEN /\ result' = InvalidResult
            /\ pc' = "returned"
            /\ stdout' = stdout
       ELSE /\ result' = NoResult
            /\ pc' = "collect"
            /\ stdout' = Append(stdout, "Collecting data for " \o c.val \o "...")

\* the Collection stage and what run does with its answer, up to the call
\* of the Analysis stage
RunCollectWith(out, fault) ==
    /\ pc = "collect"
    /\   LET st == DataCollectorAgent_run(company, out)
             tr == trace \o st.calls
             so == stdout \o st.printed
             i == "Collected data for " \o company.val
         IN /\ data' = IF st.ret.type = "raise" THEN data ELSE st.ret
            /\ CASE st.ret.type = "raise" ->
                      /\ pc' = "raised"
                      /\ UNCHANGED <<result, memory, appended>>
                      /\ trace' = tr
                      /\ stdout' = so
                 [] st.ret.type # "raise" /\ IsErrorDict(st.ret) ->
                      /\ pc' = "returned"
                      /\ result' = CollectFailureResult(company, st.ret)
                      /\ memory' = memory
                      /\ appended' = appended
                      /\ trace' = tr
                      /\ stdout' = so
                 [] st.ret.type # "raise" /\ ~IsErrorDict(st.ret) /\ fault ->
                      /\ pc' = "returned"
                      /\ result' = ExceptResult(company, MemFaultMsg)
                      /\ memory' = memory
                      /\ appended' = appended
                      /\ trace' = Append(tr, MemoryEvent("save_context", i, "fault"))
                      /\ stdout' = Append(so, OrchestrationErrorMsg(company, MemFaultMsg))
                 [] OTHER ->
                      /\ pc' = "analyze"
                      /\ result' = result
                      /\ memory' = save_context(memory, i, st.ret.val)
                      /\ appended' = Append(appended, [input |-> i, output |-> st.ret.val])
                      /\ trace' = Append(tr, MemoryEvent("save_context", i, "ok"))
                      /\ stdout' = Append(so, "Analyzing data for " \o company.val \o "...")
    /\ UNCHANGED <<company, analysis, memAtEntry>>

RunCollect == \E out \in ModelOutcomes, fault \in BOOLEAN : RunCollectWith(out, fault)

\* the Analysis stage and what run does with its answer, up to its return
RunAnalyzeWith(out, fault, fault2) ==
    /\ pc = "analyze"
    /\   LET st == AnalystAgent_run(data, out)
             tr == trace \o st.calls
             so == stdout \o st.printed
             i == "Analyze company data"
             saved == save_context(memory, i, st.ret.val)
         IN /\ analysis' = IF st.ret.type = "raise" THEN analysis ELSE st.ret
            /\ CASE st.ret.type = "raise" ->
                      /\ pc' = "raised"
                      /\ UNCHANGED <<result, memory, appended>>
                      /\ trace' = tr
                      /\ stdout' = so
                 [] st.ret.type # "raise" /\ IsErrorDict(st.ret) ->
                      /\ pc' = "returned"
                      /\ result' = AnalyzeFailureResult(company, data, st.ret)
                      /\ memory' = memory
                      /\ appended' = appended
                      /\ trace' = tr
                      /\ stdout' = so
                 [] st.ret.type # "raise" /\ ~IsErrorDict(st.ret) /\ fault ->
                      /\ pc' = "returned"
                      /\ result' = ExceptResult(company, MemFaultMsg)
                      /\ memory' = memory
                      /\ appended' = appended
                      /\ trace' = Append(tr, MemoryEvent("save_context", i, "fault"))
                      /\ stdout' = Append(so, OrchestrationErrorMsg(company, MemFaultMsg))
                 [] st.ret.type # "raise" /\ ~IsErrorDict(st.ret) /\ ~fault /\ fault2 ->
                      /\ pc' = "returned"
                      /\ result' = ExceptResult(company, MemFaultMsg)
                      /\ memory' = saved
                      /\ appended' = Append(appended, [input |-> i, output |-> st.ret.val])
                      /\ trace' = tr \o <<MemoryEvent("save_context", i, "ok"),
                                          MemoryEvent("load_memory_variables", "", "fault")>>
                      /\ stdout' = Append(so, OrchestrationErrorMsg(company, MemFaultMsg))
                 [] OTHER ->
                      /\ pc' = "returned"
                      /\ result' = SuccessResult(company, data, st.ret,
                                                 load_memory_variables(saved))
                      /\ memory' = saved
                      /\ appended' = Append(appended, [input |-> i, output |-> st.ret.val])
                      /\ trace' = tr \o <<MemoryEvent("save_context", i, "ok"),
                                          MemoryEvent("load_memory_variables", "", "ok")>>
                      /\ stdout' = so
    /\ UNCHANGED <<company, data, memAtEntry>>

RunAnalyze ==
    \E out \in ModelOutcomes, fault \in BOOLEAN, fault2 \in BOOLEAN :
        RunAnalyzeWith(out, fault, fault2)

\* ------------------------------------------------------------------ client
\* A client holding one OrchestratorAgent calls run, again and again; it
\* takes the output of each call when the call ends.
ClientCall ==
    /\ proc = "client"
    /\ runs < MaxRuns
    /\ \E c \in CompanyInputs : RunEnter(c)
    /\ reads' = <<>>
    /\ UNCHANGED <<runs, stageLog, launch, proc, exitCode, env, seen>>

StepCollect == RunCollect /\ UNCHANGED <<runs, stageLog, launch, reads, proc, exitCode, env, seen>>

StepAnalyze == RunAnalyze /\ UNCHANGED <<runs, stageLog, launch, reads, proc, exitCode, env, seen>>

\* run has returned, or KeyboardInterrupt has left it: the client goes on
ClientReturn ==
    /\ proc = "client"
    /\ pc \in {"returned", "raised"}
    /\ pc' = "idle"
    /\ runs' = runs + 1
    /\ result' = NoResult
    /\ stdout' = <<>>
    /\ UNCHANGED <<memory, company, data, analysis, trace, memAtEntry,
                   stageLog, launch, reads, proc, exitCode, appended, env, seen>>

Next == ClientCall \/ StepCollect \/ StepAnalyze \/ ClientReturn

\* Between its calls of run, and with a result in hand, the client reads the
\* log itself: orchestrator.memory.load_memory_variables({})["history"].
\* The read writes nothing.
ClientRead ==
    /\ proc = "client"
    /\ pc \in {"idle", "returned"}
    /\ Len(reads) < MaxReads
    /\ reads' = Append(reads, [appends |-> Len(appended),
                               history |-> load_memory_variables(memory).history])
    /\ UNCHANGED <<memory, pc, company, data, analysis, result, trace, memAtEntry,
                   runs, stdout, stageLog, proc, exitCode, appended, env, seen,
                   launch>>

NextLog == ClientCall \/ StepCollect \/ StepAnalyze \/ ClientReturn \/ ClientRead

SpecLog == Init /\ [][NextLog]_vars

Spec == Init /\ [][Next]_vars

\* ------------------------------------------------- the stages called alone
\* one call of a stage's run as the caller sees it; what the stage printed
\* goes to stdout
StageCall(stage, input, st) ==
    [stage |-> stage, input |-> input, ret |-> st.ret, calls |-> st.calls]

CallDataCollector ==
    /\ proc = "client"
    /\ Len(stageLog) < MaxStageCalls
    /\ \E c \in CompanyInputs, out \in ModelOutcomes :
         LET st == DataCollectorAgent_run(c, out)
         IN  /\ stageLog' = Append(stageLog, StageCall("Collection", c, st))
             /\ stdout' = stdout \o st.printed
    /\ UNCHANGED <<memory, pc, company, data, analysis, result, trace, memAtEntry,
                   appended, runs, launch, reads, proc, exitCode, env, seen>>

CallAnalyst ==
    /\ proc = "client"
    /\ Len(stageLog) < MaxStageCalls
    /\ \E d \in DataInputs, out \in ModelOutcomes :
         LET st == AnalystAgent_run(d, out)
         IN  /\ stageLog' = Append(stageLog, StageCall("Analysis", d, st))
             /\ stdout' = stdout \o st.printed
    /\ UNCHANGED <<memory, pc, company, data, analysis, result, trace, memAtEntry,
                   appended, runs, launch, reads, proc, exitCode, env, seen>>

NextStages == CallDataCollector \/ CallAnalyst

SpecStages == Init /\ [][NextStages]_vars

\* ------------------------------------- one fresh orchestrator for each run
\* The model and the memory are pure functions of what they are called with:
\* env holds the answers given so far, and a call met again is answered as
\* before.
FaultAnswers == [kind : {"ok", "fault"}, val : {""}]
Answers(key, all) == IF key \in DOMAIN env THEN {env[key]} ELSE all
Reveal(e, key, answer) == IF key \in DOMAIN e THEN e ELSE e @@ (key :> answer)

\* a memory that outlives the orchestrator it was built for
NewMemory_Shared(old) == old

\* self.memory = ConversationBufferMemory(return_messages=True)
NewMemory(old) == <<>>

\* OrchestratorAgent()
FreshConstruct ==
    /\ proc = "client"
    /\ pc = "idle"
    /\ runs < MaxRuns
    /\ memory' = NewMemory(memory)
    /\ appended' = <<>>
    /\ proc' = "fresh"
    /\ UNCHANGED <<pc, company, data, analysis, result, trace, memAtEntry, runs,
                   stdout, stageLog, launch, reads, exitCode, env, seen>>

FreshCall ==
    /\ proc = "fresh"
    /\ \E c \in CompanyInputs : RunEnter(c)
    /\ proc' = "calling"
    /\ UNCHANGED <<runs, stageLog, launch, reads, exitCode, env, seen>>

FreshCollect ==
    /\ proc = "calling"
    /\ pc = "collect"
    /\ LET k == <<"Collection", company.val>>
           ks == <<"save_context", "Collected data for " \o company.val>>
       IN \E out \in Answers(k, ModelOutcomes), f \in Answers(ks, FaultAnswers) :
            /\ RunCollectWith(out, f.kind = "fault")
            /\ env' = Reveal(Reveal(env, k, out), ks, f)
    /\ UNCHANGED <<runs, stageLog, launch, reads, proc, exitCode, seen>>

FreshAnalyze ==
    /\ proc = "calling"
    /\ pc = "analyze"
    /\ LET k == <<"Analysis", data.val>>
           ks == <<"save_context", "Analyze company data">>
           kl == <<"load_memory_variables", "">>
       IN \E out \in Answers(k, ModelOutcomes), f \in Answers(ks, FaultAnswers),
             f2 \in Answers(kl, FaultAnswers) :
            /\ RunAnalyzeWith(out, f.kind = "fault", f2.kind = "fault")
            /\ env' = Reveal(Reveal(Reveal(env, k, out), ks, f), kl, f2)
    /\ UNCHANGED <<runs, stageLog, launch, reads, proc, exitCode, seen>>

\* the call has ended; how the first run for each company ended is kept
FreshReturn ==
    /\ proc = "calling"
    /\ pc \in {"returned", "raised"}
    /\ seen' = Reveal(seen, company, [pc |-> pc, result |-> result])
    /\ pc' = "idle"
    /\ runs' = runs + 1
    /\ result' = NoResult
    /\ stdout' = <<>>
    /\ proc' = "client"
    /\ UNCHANGED <<memory, company, data, analysis, trace, memAtEntry,
                   stageLog, launch, reads, exitCode, appended, env>>

NextFresh == FreshConstruct \/ FreshCall \/ FreshCollect \/ FreshAnalyze \/ FreshReturn

SpecFresh == Init /\ [][NextFresh]_vars

\* ------------------------------------------------------------- the process
\* str(e) of what the constructors raise
LlmInitErrors == {"The api_key client option must be set"}
\* ChatOpenAI(...) at import: built, or str(e) of what it raises
LlmInitOutcomes == {"ok"} \cup LlmInitErrors

\* The text of the repository's file: it holds raw line breaks inside nine
\* one-line string literals of the entry point (lines 178-210).
CommittedText == "as committed"

\* The texts of the repository handed to python3.
SourceTexts == {CommittedText}

\* Not a text of the repository: the entry point the specification
\* describes, that is the same statements with those nine line breaks
\* written \n. No run of the repository's code starts from it; it is kept
\* beside the committed text so that what is shown of lines 171-211 is shown
\* of the statements as written, and only properties that hold from both
\* texts are stated of the process.
EscapedText == "line breaks escaped"

\* compile() of the whole file, before any statement of it runs: a string
\* literal that is not closed on its line is a SyntaxError
Compiles(file) == file # CommittedText

\* the interpreter's end on a SyntaxError: traceback on stderr, nothing on
\* stdout, status 1
CompileFailure == [proc |-> "syntax_error", exitCode |-> 1, printed |-> <<>>]
CtorErrors == {"Missing some input keys", "validation error"}
Rule(ch) == IF ch = "=" THEN "==================================================" ELSE "--------------------------------------------------"

\* exit(1) in both except clauses of the entry point
MainExitCode_AlwaysFails(handler) == 1

\* the status the process ends with after the except clause `handler` of
\* the entry point
MainExitCode(handler) == IF handler = "Exception" THEN 1 ELSE 0

InitMain ==
    /\ memory = <<>>
    /\ pc = "idle"
    /\ company = Unbound
    /\ data = Unbound
    /\ analysis = Unbound
    /\ result = NoResult
    /\ trace = <<>>
    /\ memAtEntry = <<>>
    /\ runs = 0
    /\ stdout = <<>>
    /\ stageLog = <<>>
    /\ proc = "load"
    /\ exitCode = 0
    /\ appended = <<>>
    /\ env = <<>>
    /\ seen = <<>>
    /\ launch \in [file : SourceTexts \cup {EscapedText}, llm : LlmInitOutcomes]
    /\ reads = <<>>

StartupDiagnostic(e) ==
    <<"Error initializing OpenAI client: " \o e,
      "Please ensure OPENAI_API_KEY is set in your .env file">>

\* the except clause at import without its exit(1)
StartupFailure_Continues(e) ==
    [proc |-> "main", exitCode |-> 0, printed |-> StartupDiagnostic(e)]

\* the except clause at import: two lines printed, then exit(1)
StartupFailure(e) ==
    [proc |-> "startup_failed", exitCode |-> 1, printed |-> StartupDiagnostic(e)]

\* python3 <file>: the file is compiled, then load_dotenv() and
\* ChatOpenAI(...) run at import
LoadModule ==
    /\ proc = "load"
    /\ IF ~Compiles(launch.file)
       THEN /\ stdout' = stdout \o CompileFailure.printed
            /\ exitCode' = CompileFailure.exitCode
            /\ proc' = CompileFailure.proc
       ELSE IF launch.llm = "ok"
       THEN /\ proc' = "main"
            /\ UNCHANGED <<stdout, exitCode>>
       ELSE /\ stdout' = stdout \o StartupFailure(launch.llm).printed
            /\ exitCode' = StartupFailure(launch.llm).exitCode
            /\ proc' = StartupFailure(launch.llm).proc
    /\ UNCHANGED <<memory, pc, company, data, analysis, result, trace, memAtEntry,
                   runs, stageLog, launch, reads, appended, env, seen>>

\* what a library constructor does: "ok", or str(e) of what it raises
CtorOutcomes == {"ok"} \cup CtorErrors
Constructed == [raised |-> FALSE, msg |-> ""]
RuntimeError(msg) == [raised |-> TRUE, msg |-> msg]

\* DataCollectorAgent(), ChatPromptTemplate.from_template doing `t`
DataCollectorAgent_init(t) ==
    IF t = "ok" THEN Constructed
    ELSE RuntimeError("Failed to initialize DataCollectorAgent: " \o t)

\* AnalystAgent(), ChatPromptTemplate.from_template doing `t`
AnalystAgent_init(t) ==
    IF t = "ok" THEN Constructed
    ELSE RuntimeError("Failed to initialize AnalystAgent: " \o t)

\* OrchestratorAgent(): ConversationBufferMemory(...) doing `m`, then the
\* two stages built in order; the first exception is wrapped and raised
OrchestratorAgent_init(m, d, a) ==
    LET wrap(e) == RuntimeError("Failed to initialize OrchestratorAgent: " \o e)
    IN  IF m # "ok" THEN wrap(m)
        ELSE IF DataCollectorAgent_init(d).raised THEN wrap(DataCollectorAgent_init(d).msg)
        ELSE IF AnalystAgent_init(a).raised THEN wrap(AnalystAgent_init(a).msg)
        ELSE Constructed

\* OrchestratorAgent() and the report's heading
MainConstruct ==
    /\ proc = "main"
    /\ \E m \in CtorOutcomes, d \in CtorOutcomes, a \in CtorOutcomes :
         LET o == OrchestratorAgent_init(m, d, a)
         IN  IF ~o.raised
             THEN /\ proc' = "constructed"
                  /\ stdout' = stdout \o <<"\n" \o Rule("="), "COMPANY INTELLIGENCE REPORT",
                                           Rule("=") \o "\n">>
                  /\ UNCHANGED exitCode
             ELSE /\ proc' = "fatal"
                  /\ stdout' = Append(stdout, "\n[X] Fatal error: " \o o.msg)
                  /\ exitCode' = MainExitCode("Exception")
    /\ UNCHANGED <<memory, pc, company, data, analysis, result, trace, memAtEntry,
                   runs, stageLog, launch, reads, appended, env, seen>>

\* result = orchestrator.run(company_1)
MainCallRun ==
    /\ proc = "constructed"
    /\ RunEnter(company_1)
    /\ proc' = "running"
    /\ UNCHANGED <<runs, stageLog, launch, reads, exitCode, env, seen>>

\* the lines of the report (the cross mark of the source is written [X])
ErrorLine(r) == "[X] ERROR: " \o r.error.val
ReportSections(r) ==
    <<"Company: " \o r.company.val \o "\n",
      Rule("-"), "RAW DATA", Rule("-"), r.raw_data.val,
      "\n" \o Rule("-"), "ANALYSIS", Rule("-"), r.analysis.val,
      "\n" \o Rule("=") \o "\n">>

\* the entry point showing the sections whenever some data was collected
ReportLines_ShowsPartialData(r) ==
    IF r.raw_data = None THEN <<ErrorLine(r)>> ELSE ReportSections(r)

\* what the entry point prints for the result r
ReportLines(r) ==
    IF "error" \in DOMAIN r THEN <<ErrorLine(r)>> ELSE ReportSections(r)

\* the report, or the error line
MainReport ==
    /\ proc = "running"
    /\ pc = "returned"
    /\ stdout' = stdout \o ReportLines(result)
    /\ proc' = "done"
    /\ UNCHANGED <<memory, pc, company, data, analysis, result, trace, memAtEntry,
                   runs, stageLog, launch, reads, exitCode, appended, env, seen>>

\* except KeyboardInterrupt
MainInterrupted ==
    /\ proc = "running"
    /\ pc = "raised"
    /\ stdout' = Append(stdout, "\n\nProcess interrupted by user")
    /\ exitCode' = MainExitCode("KeyboardInterrupt")
    /\ proc' = "interrupted"
    /\ UNCHANGED <<memory, pc, company, data, analysis, result, trace, memAtEntry,
                   runs, stageLog, launch, reads, appended, env, seen>>

NextMain ==
    \/ LoadModule
    \/ MainConstruct
    \/ MainCallRun
    \/ StepCollect
    \/ StepAnalyze
    \/ MainReport
    \/ MainInterrupted

SpecMain == InitMain /\ [][NextMain]_vars

\* ------------------------------------------------------------------ claims
\* the (input, output) pairs a message list holds, in order
LogEntries(messages) ==
    [i \in 1..(Len(messages) \div 2) |->
        [input |-> messages[2 * i - 1].content, output |-> messages[2 * i].content]]

\* the transcript a result carries: none when it has no "memory" key
Transcript(r) ==
    IF "memory" \in DOMAIN r THEN LogEntries(r.memory.history) ELSE <<>>

HasError(r) == "error" \in DOMAIN r /\ r.error # None

IsModelEvent(e) == e.ev = "model"
ModelCalls == SelectSeq(trace, IsModelEvent)
StageCalls(stage) == {i \in 1..Len(ModelCalls) : ModelCalls[i].stage = stage}
AllModelCallsSucceed == \A i \in 1..Len(ModelCalls) : ModelCalls[i].outcome = "content"
MemoryFault ==
    \E i \in 1..Len(trace) : trace[i].ev = "memory" /\ trace[i].outcome = "fault"

Returned == pc = "returned"
CollectionEntry == [input |-> "Collected data for " \o company.val, output |-> data.val]
AnalysisEntry == [input |-> "Analyze company data", output |-> analysis.val]
CollectionSucceeded == data.type = "str"
AnalysisSucceeded == analysis.type = "str"

\* C1 as stated: a run with a non-empty text company in which every model
\* call succeeds returns no error, non-null raw_data and analysis, and a
\* transcript of exactly the collection entry and the analysis entry.
C1_Original ==
    (Returned /\ ~InvalidCompanyName(company) /\ AllModelCallsSucceed) =>
        /\ ~HasError(result)
        /\ result.raw_data # None
        /\ result.analysis # None
        /\ Transcript(result) = <<CollectionEntry, AnalysisEntry>>

\* C1 amended: a run with a non-empty text company in which every model call
\* succeeds, the Collection text is not empty and the memory raises no fault
\* returns no error, non-null raw_data and analysis, and a transcript that is
\* the log of the earlier runs of this orchestrator followed by exactly the
\* collection entry and the analysis entry of this run (2 entries in all on
\* a fresh orchestrator).
C1_Amended ==
    (Returned /\ ~InvalidCompanyName(company) /\ AllModelCallsSucceed
       /\ data # Str("") /\ ~MemoryFault) =>
        /\ ~HasError(result)
        /\ result.raw_data # None
        /\ result.analysis # None
        /\ Transcript(result) =
              LogEntries(memAtEntry) \o <<CollectionEntry, AnalysisEntry>>
        /\ (memAtEntry = <<>> => Len(Transcript(result)) = 2)

C1_Witness ==
    /\ Returned /\ ~HasError(result)
    /\ Len(Transcript(result)) = 4
    /\ AllModelCallsSucceed /\ Len(ModelCalls) = 2

\* C2: when the Collection model call fails, run returns raw_data = None,
\* analysis = None, an error and no transcript entries, and the Analysis
\* stage is not invoked: the run makes no second model call.
C2_CollectionFailure ==
    (Returned /\ Len(ModelCalls) >= 1 /\ ModelCalls[1].outcome = "exception") =>
        /\ result.raw_data = None
        /\ result.analysis = None
        /\ HasError(result)
        /\ Transcript(result) = <<>>
        /\ Len(ModelCalls) = 1
        /\ StageCalls("Analysis") = {}
        /\ analysis = Unbound

C2_Witness ==
    /\ Returned /\ Len(ModelCalls) = 1 /\ ModelCalls[1].outcome = "exception"
    /\ memAtEntry # <<>>

\* C3 as stated: when Collection succeeds and Analysis fails, run returns
\* raw_data = the collected text, analysis = None, an error, and a transcript
\* of exactly 1 entry, the collection entry of this run.
C3_Original ==
    (Returned /\ CollectionSucceeded /\ IsErrorDict(analysis)) =>
        /\ result.raw_data = data
        /\ result.analysis = None
        /\ HasError(result)
        /\ Transcript(result) = <<CollectionEntry>>

\* C3 amended: when Collection succeeds and Analysis fails, run returns
\* raw_data = the collected text, analysis = None and an error; the result
\* carries no transcript, and the orchestrator's log has gained exactly 1
\* entry in this run, the collection entry.
C3_Amended ==
    (Returned /\ CollectionSucceeded /\ IsErrorDict(analysis)) =>
        /\ result.raw_data = data
        /\ result.analysis = None
        /\ HasError(result)
        /\ "memory" \notin DOMAIN result
        /\ memory = memAtEntry \o <<HumanMessage(CollectionEntry.input),
                                     AIMessage(CollectionEntry.output)>>
        /\ LogEntries(memory) = LogEntries(memAtEntry) \o <<CollectionEntry>>

C3_Witness ==
    /\ Returned /\ CollectionSucceeded /\ IsErrorDict(analysis)
    /\ Len(ModelCalls) = 2 /\ ModelCalls[2].outcome = "exception"

\* C4: for a company that is the empty string or not text, run returns an
\* error, raw_data = None, analysis = None and no transcript entries, and the
\* model is not called.
C4_InvalidCompany ==
    (Returned /\ (company = Str("") \/ company.type # "str")) =>
        /\ HasError(result)
        /\ result.raw_data = None
        /\ result.analysis = None
        /\ Transcript(result) = <<>>
        /\ ModelCalls = <<>>

C4_Witness == Returned /\ company = PyInt("42") /\ memAtEntry # <<>>

\* C5 as stated: a fault raised in run after Collection succeeded gives a
\* result with an error whose raw_data is the collected text.
C5_Original ==
    (Returned /\ MemoryFault /\ CollectionSucceeded) =>
        /\ HasError(result)
        /\ result.raw_data = data

\* C5 amended: a fault raised in run outside the stages does not leave run:
\* run returns a result with the error "Orchestration error for <company>:
\* <fault>", raw_data = None and analysis = None, also when the fault comes
\* after Collection, or both stages, succeeded.
C5_Amended ==
    (pc \in {"returned", "raised"} /\ MemoryFault) =>
        /\ pc = "returned"
        /\ HasError(result)
        /\ result.error = Str(OrchestrationErrorMsg(company, MemFaultMsg))
        /\ result.raw_data = None
        /\ result.analysis = None

C5_Witness == Returned /\ MemoryFault /\ CollectionSucceeded /\ AnalysisSucceeded

\* C6 as stated: in every result, an error implies raw_data or analysis is
\* None, and both stages having succeeded implies no error.
C6_Original ==
    Returned =>
        /\ HasError(result) => (result.raw_data = None \/ result.analysis = None)
        /\ (CollectionSucceeded /\ AnalysisSucceeded) => ~HasError(result)

\* C6 amended: in every result, an error implies raw_data or analysis is
\* None; and both stages having succeeded, with no fault raised by the
\* memory after them, implies no error.
C6_Amended ==
    Returned =>
        /\ HasError(result) => (result.raw_data = None \/ result.analysis = None)
        /\ (CollectionSucceeded /\ AnalysisSucceeded /\ ~MemoryFault) =>
              ~HasError(result)

C6_Witness ==
    /\ Returned /\ CollectionSucceeded /\ analysis = Str("")
    /\ ~MemoryFault /\ ~HasError(result)

\* C9: no model call is retried: a run makes at most one model call per
\* stage, so at most 2, and none after a model call that failed.
C9_NoRetry ==
    /\ Len(ModelCalls) <= 2
    /\ Cardinality(StageCalls("Collection")) <= 1
    /\ Cardinality(StageCalls("Analysis")) <= 1
    /\ \A i \in 1..Len(ModelCalls) :
          ModelCalls[i].outcome # "content" => i = Len(ModelCalls)

C9_Witness ==
    /\ Returned /\ Len(ModelCalls) = 2 /\ ModelCalls[2].outcome = "exception"
    /\ memAtEntry # <<>>

ModelCallFailed(r) == \E j \in 1..Len(r.calls) : r.calls[j].outcome = "exception"

\* C7: a stage whose model call fails returns a Failure, a mapping with an
\* error message: it neither raises nor returns a Success.
C7_FailureNotRaised ==
    \A k \in 1..Len(stageLog) :
        ModelCallFailed(stageLog[k]) =>
            /\ stageLog[k].ret.type = "dict"
            /\ stageLog[k].ret.val # ""

C7_Witness ==
    /\ \E k \in 1..Len(stageLog) :
          stageLog[k].stage = "Collection" /\ ModelCallFailed(stageLog[k])
    /\ \E k \in 1..Len(stageLog) :
          stageLog[k].stage = "Analysis" /\ ModelCallFailed(stageLog[k])

MissingInput(r) ==
    \/ r.stage = "Collection" /\ (r.input = Str("") \/ r.input.type # "str")
    \/ r.stage = "Analysis" /\ r.input \in {Str(""), None}

\* C8: a stage called with a missing or empty input (DataCollectorAgent.run
\* with an empty or non-text company, AnalystAgent.run with empty
\* company_data) returns a Failure and makes no model call.
C8_InvalidInputNoCall ==
    \A k \in 1..Len(stageLog) :
        MissingInput(stageLog[k]) =>
            /\ stageLog[k].ret.type = "dict"
            /\ stageLog[k].calls = <<>>

C8_Witness ==
    /\ \E k \in 1..Len(stageLog) :
          stageLog[k].stage = "Collection" /\ stageLog[k].input = PyInt("42")
    /\ \E k \in 1..Len(stageLog) :
          stageLog[k].stage = "Analysis" /\ stageLog[k].input = Str("")

\* C10 (the process exits with code 1 when a fatal error reaches the entry
\* point and when the run is interrupted by KeyboardInterrupt): from the
\* committed text neither handler is reached, so no run decides it. The two
\* formulas below say what the handlers of lines 204-211 do where they are
\* reached, which is from the escaped text alone.
C10_Original == proc \in {"fatal", "interrupted"} => exitCode = 1

\* Where the handlers are reached: exit code 1 after the Exception clause;
\* after the KeyboardInterrupt clause, "Process interrupted by user" is
\* printed and the exit code is 0.
C10_Amended ==
    /\ proc = "fatal" => exitCode = 1
    /\ proc = "interrupted" =>
          /\ exitCode = 0
          /\ stdout[Len(stdout)] = "\n\nProcess interrupted by user"

C10_Witness == proc = "interrupted" /\ Len(ModelCalls) = 2

\* C12: with a model that is a pure function of its inputs, two calls of run
\* with the same company, each on a freshly constructed OrchestratorAgent,
\* return identical results.
C12_SameResult ==
    (proc = "calling" /\ pc \in {"returned", "raised"} /\ company \in DOMAIN seen) =>
        /\ seen[company].pc = pc
        /\ seen[company].result = result

C12_Witness ==
    /\ proc = "calling" /\ Returned /\ company \in DOMAIN seen
    /\ "memory" \in DOMAIN result

C14_Claim ==
    (launch.llm # "ok" /\ proc # "load") =>
        /\ exitCode = 1
        /\ stdout = StartupDiagnostic(launch.llm)
        /\ pc = "idle" /\ company = Unbound /\ result = NoResult
        /\ trace = <<>> /\ memory = <<>>
        /\ ~ENABLED NextMain

\* Where the except clause of lines 19-22 is reached (the file's line breaks
\* escaped), the diagnostic is printed and the process ends with exit code 1
\* with nothing else run and nothing run afterwards.
C14_StartupFailureExits ==
    \A e \in LlmInitErrors :
        (\E i \in 1..Len(stdout) : stdout[i] = "Error initializing OpenAI client: " \o e) =>
            /\ proc = "startup_failed"
            /\ exitCode = 1
            /\ stdout = <<"Error initializing OpenAI client: " \o e,
                          "Please ensure OPENAI_API_KEY is set in your .env file">>
            /\ pc = "idle" /\ company = Unbound /\ result = NoResult
            /\ trace = <<>> /\ memory = <<>>
            /\ ~ENABLED NextMain

C14_Witness == proc = "startup_failed" /\ Len(stdout) = 2 /\ exitCode = 1

\* C15: in a run the Analysis model call comes only after the Collection
\* model call has returned successfully and its entry has been appended to
\* the log, and the Analysis stage is given exactly what the Collection
\* stage returned.
C15_AnalysisAfterCollection ==
    \A i \in 1..Len(trace) :
        (trace[i].ev = "model" /\ trace[i].stage = "Analysis") =>
            /\ i = 3
            /\ trace[1] = [ev |-> "model", stage |-> "Collection",
                           input |-> company.val, outcome |-> "content"]
            /\ trace[2] = [ev |-> "memory", stage |-> "save_context",
                           input |-> "Collected data for " \o company.val,
                           outcome |-> "ok"]
            /\ data.type = "str"
            /\ trace[i].input = data.val
            /\ Len(memory) >= Len(memAtEntry) + 2
            /\ memory[Len(memAtEntry) + 1].content = "Collected data for " \o company.val
            /\ memory[Len(memAtEntry) + 2].content = trace[i].input

C15_Witness ==
    /\ Len(trace) = 3
    /\ trace[3].ev = "model" /\ trace[3].stage = "Analysis"
    /\ trace[3].outcome = "interrupt"
    /\ memAtEntry # <<>>

\* the entries appended to the log since the current run was entered
ThisRunEntries == SubSeq(appended, Len(memAtEntry) \div 2 + 1, Len(appended))

\* C16 as stated: when one orchestrator runs several times, the transcript a
\* run returns holds the entries appended during that run and none of an
\* earlier run.
C16_Original ==
    (Returned /\ "memory" \in DOMAIN result) => Transcript(result) = ThisRunEntries

\* C16 amended: when one orchestrator runs several times, the transcript a
\* successful run returns is, when it returns, the orchestrator's whole log:
\* the entries of the earlier runs, in order, followed by the 2 entries
\* appended during that run; a run that ends with an error returns no
\* transcript.
C16_Amended ==
    Returned =>
        IF HasError(result)
        THEN "memory" \notin DOMAIN result
        ELSE /\ Len(ThisRunEntries) = 2
             /\ Transcript(result) = LogEntries(memAtEntry) \o ThisRunEntries

C16_Witness ==
    /\ Returned /\ "memory" \in DOMAIN result
    /\ Len(Transcript(result)) = 4 /\ Len(ThisRunEntries) = 2
    /\ company = company_1

\* how many of the conditions hold
Count(conds) == Cardinality({i \in 1..Len(conds) : conds[i]})
NoData(r) == r.raw_data = None /\ r.analysis = None
LogUnchanged == memory = memAtEntry

\* C17 as stated: every return of run has exactly one of four shapes:
\* invalid input (error, no data, empty transcript), stage-1 failure (error,
\* no data, empty transcript), stage-2 failure (raw_data set, analysis None,
\* error, transcript of the collection entry alone), success (both set, no
\* error, full transcript); no other fields and log contents are reached,
\* the caught-fault path included.
C17_Original ==
    Returned =>
        Count(<<
            /\ result.company = None /\ HasError(result) /\ NoData(result)
            /\ Transcript(result) = <<>> /\ LogUnchanged,
            /\ result.company # None /\ HasError(result) /\ NoData(result)
            /\ Transcript(result) = <<>> /\ LogUnchanged,
            /\ result.raw_data.type = "str" /\ result.analysis = None
            /\ HasError(result) /\ Transcript(result) = <<CollectionEntry>>,
            /\ result.raw_data.type = "str" /\ result.analysis.type = "str"
            /\ ~HasError(result) /\ Transcript(result) = LogEntries(memory)
        >>) = 1

\* C17 amended: every return of run has exactly one of four shapes: invalid
\* input (error, company and data None, no transcript, log unchanged);
\* stage-1 failure (error, no data, no transcript), with the log unchanged
\* unless the error is a caught fault, after which the log may hold 1 or 2
\* new entries; stage-2 failure (raw_data set, analysis None, error, no
\* transcript in the result, the collection entry added to the log); success
\* (both set, no error, the whole log as transcript, 2 entries added).
C17_Amended ==
    Returned =>
        Count(<<
            /\ result.company = None /\ HasError(result) /\ NoData(result)
            /\ "memory" \notin DOMAIN result /\ LogUnchanged,
            /\ result.company # None /\ result.company = company
            /\ HasError(result) /\ NoData(result)
            /\ "memory" \notin DOMAIN result
            /\ IF MemoryFault THEN Len(ThisRunEntries) \in {0, 1, 2} ELSE LogUnchanged,
            /\ result.raw_data.type = "str" /\ result.raw_data = data
            /\ result.analysis = None /\ HasError(result)
            /\ "memory" \notin DOMAIN result
            /\ ThisRunEntries = <<CollectionEntry>>,
            /\ result.raw_data.type = "str" /\ result.analysis.type = "str"
            /\ "error" \notin DOMAIN result
            /\ Transcript(result) = LogEntries(memory)
            /\ Len(ThisRunEntries) = 2
        >>) = 1

C17_Witness ==
    /\ Returned /\ MemoryFault /\ Len(ThisRunEntries) = 2
    /\ NoData(result) /\ HasError(result)

IsPrefix(s, t) == Len(s) <= Len(t) /\ SubSeq(t, 1, Len(s)) = s

\* C18: the log of an orchestrator is append-only over any sequence of runs:
\* its length never decreases, and every entry keeps its position and its
\* content (each log state is a prefix of every later one).
C18_AppendOnly == [][Len(memory) <= Len(memory') /\ IsPrefix(memory, memory')]_vars

C18_Witness == pc = "analyze" /\ Len(memory) = 6 /\ Len(memAtEntry) = 4

\* C19: a run that ends in invalid input or in a Collection failure leaves
\* the log as it was before the call; a run that ends in an Analysis failure
\* adds exactly one entry, the collection entry; and in every state each
\* "Analyze company data" entry of the log comes right after the "Collected
\* data for <company>" entry of the same run.
C19_LogFrame ==
    /\ (Returned /\ (company = Str("") \/ company.type # "str" \/ data.type = "dict")) =>
          memory = memAtEntry
    /\ (Returned /\ data.type = "str" /\ analysis.type = "dict") =>
          /\ Len(memory) = Len(memAtEntry) + 2
          /\ LogEntries(memory) = LogEntries(memAtEntry) \o <<CollectionEntry>>
    /\ \A k \in 1..Len(LogEntries(memory)) :
          LogEntries(memory)[k].input = "Analyze company data" =>
              /\ k > 1
              /\ \E c \in CompanyInputs :
                    /\ c.type = "str" /\ c.val # ""
                    /\ LogEntries(memory)[k - 1].input = "Collected data for " \o c.val
              /\ 2 * k > Len(memAtEntry) =>
                    /\ 2 * (k - 1) > Len(memAtEntry)
                    /\ LogEntries(memory)[k - 1] = CollectionEntry

C19_Witness ==
    /\ Returned /\ data.type = "str" /\ analysis.type = "dict"
    /\ Len(memory) = 6

Printed(line) == \E i \in 1..Len(stdout) : stdout[i] = line
SectionPrinted == Printed("RAW DATA") \/ Printed("ANALYSIS")

\* C11: the entry point prints the RAW DATA and ANALYSIS sections only for a
\* result without error; for a result with an error it prints one line,
\* the ERROR line, and no section, so that partial data is never shown as a
\* report.
C11_ReportOnlyOnSuccess ==
    /\ [][(proc = "running" /\ proc' = "done") =>
            IF HasError(result)
            THEN stdout' = Append(stdout, "[X] ERROR: " \o result.error.val)
            ELSE stdout' = stdout \o
                   <<"Company: " \o result.company.val \o "\n",
                     Rule("-"), "RAW DATA", Rule("-"), result.raw_data.val,
                     "\n" \o Rule("-"), "ANALYSIS", Rule("-"), result.analysis.val,
                     "\n" \o Rule("=") \o "\n">>]_vars
    /\ [](SectionPrinted => (proc = "done" /\ ~HasError(result)))

C11_Witness ==
    /\ proc = "done" /\ HasError(result) /\ result.raw_data # None
    /\ ~SectionPrinted
====
